---- MODULE Spec2Model ----
(***************************************************************************)
(* The funding and burn-economics ledger of src/app.py over the tables of  *)
(* src/models.py.                                                          *)
(*                                                                         *)
(* Store.  The tables live in one SQLite database (src/config.py:5).  `db` *)
(* is the committed image.  A Flask-SQLAlchemy session (one per request)   *)
(* writes through flushes: the first flush of a transaction takes SQLite's *)
(* single write lock (`lock`), `tx` is the lock holder's uncommitted image,*)
(* commit publishes it, rollback drops it.  SELECTs outside a transaction  *)
(* read `db`.  A session keeps the rows it loaded (`user`, `camp`); `+=`   *)
(* works on the loaded value and a flush writes the changed columns as     *)
(* absolute values.  Every query autoflushes the session first.  A commit  *)
(* expires the loaded rows, the next attribute access reloads them.        *)
(*                                                                         *)
(* Numbers.  Native amounts are whole PLS.  The inputs are values on which *)
(* the source's float arithmetic (amount * 0.01, amount - burned,          *)
(* goal_usd / price, goal_pls / num_milestones) is exact, so that the      *)
(* integer operators below compute what the floats compute.  Fiat amounts  *)
(* (amount * price) are kept in whole micro-USD, without the rounding of   *)
(* the doubles.                                                            *)
(*                                                                         *)
(* Keys.  A user is named by its wallet, a campaign by its row number; the *)
(* random public campaign id is taken to be unique.                        *)
(***************************************************************************)
EXTENDS Integers, Sequences, FiniteSets, TLC

(* ------------------------------ bounds -------------------------------- *)
\* requests admitted: contributions stored, campaigns created, requests in flight
MaxOps == 2
\* calendar dates
MaxDay == 2

(* --------------------------- input domains ---------------------------- *)
Procs == {1, 2}
SeedCreator == "w0"
Wallets == {"w1", "w2"}
AllWallets == Wallets \cup {SeedCreator}
Amounts == {-100, 0, 1000, 10000}
NoneVal == "None"
Titles == {NoneVal, "Help"}
Categories == {"", "charity", "pets"}
GoalUsds == {-3, 0, 3}
MilestoneCounts == {-1, 0, 2}
\* contribute: amount_pls, up to the amount whose burn earns every badge
BadgeAmounts == {1000, 10000, 100000, 1000000}
\* get_top_contributors: limit
Limits == {0, 1, 2, 3}
\* datetime.utcnow(): the minute of the day
Minutes == {30, 60, 90}
\* init_db: the counters of a sample user
UserProfiles ==
    { [total_contributed |-> 0, total_burned |-> 0, campaigns_supported |-> 0],
      [total_contributed |-> 1000, total_burned |-> 10, campaigns_supported |-> 0],
      [total_contributed |-> 1000, total_burned |-> 5, campaigns_supported |-> 10],
      [total_contributed |-> 1000, total_burned |-> 10, campaigns_supported |-> 1],
      [total_contributed |-> 10000, total_burned |-> 100, campaigns_supported |-> 0] }
\* init_db: goal_pls and total_raised_pls of a sample campaign
SampleGoals == {400, 20000}
SampleRaised == {0, 99, 100, 199, 200, 300, 400, 990, 5000, 10000, 15000, 20000, 25000}

(* ------------------------ program constants --------------------------- *)
\* Config.CONTRIBUTION_BURN_RATE = 0.01, as a percentage
CONTRIBUTION_BURN_RATE == 1
\* MOCK_PLS_PRICE = 0.00015 USD per PLS, in micro-USD
MOCK_PLS_PRICE == 150
DefaultCreationFee == 25
DefaultDurationDays == 30

CREATION_FEES ==
    [c \in {"personal", "business", "charity", "emergency", "creative",
            "education", "medical", "community", "technology",
            "environment", "animal", "other"} |->
        CASE c = "personal" -> 25 [] c = "business" -> 50
          [] c = "charity" -> 15 [] c = "emergency" -> 10
          [] c = "creative" -> 25 [] c = "education" -> 25
          [] c = "medical" -> 15 [] c = "community" -> 25
          [] c = "technology" -> 50 [] c = "environment" -> 25
          [] c = "animal" -> 20 [] OTHER -> 25]

\* the rules of check_and_award_achievements, in source order
Rules_above ==
    << [type |-> "fire_starter", field |-> "total_burned", threshold |-> 101,
        tier |-> "bronze"],
       [type |-> "flame_fanatic", field |-> "total_burned", threshold |-> 1001,
        tier |-> "silver"],
       [type |-> "inferno_king", field |-> "total_burned", threshold |-> 10001,
        tier |-> "gold"],
       [type |-> "first_contribution", field |-> "total_contributed", threshold |-> 101,
        tier |-> "bronze"],
       [type |-> "big_spender", field |-> "total_contributed", threshold |-> 10001,
        tier |-> "gold"],
       [type |-> "support_10", field |-> "campaigns_supported", threshold |-> 11,
        tier |-> "silver"] >>

Rules ==
    << [type |-> "fire_starter", field |-> "total_burned", threshold |-> 100,
        tier |-> "bronze"],
       [type |-> "flame_fanatic", field |-> "total_burned", threshold |-> 1000,
        tier |-> "silver"],
       [type |-> "inferno_king", field |-> "total_burned", threshold |-> 10000,
        tier |-> "gold"],
       [type |-> "first_contribution", field |-> "total_contributed", threshold |-> 100,
        tier |-> "bronze"],
       [type |-> "big_spender", field |-> "total_contributed", threshold |-> 10000,
        tier |-> "gold"],
       [type |-> "support_10", field |-> "campaigns_supported", threshold |-> 10,
        tier |-> "silver"] >>

AchievementTypes == {Rules[i].type : i \in 1..Len(Rules)}

(* ----------------------------- the tables ----------------------------- *)
\* a Float column that holds a quotient: num / den, den > 0
Rat(n, d) == [num |-> n, den |-> d]

\* User: column defaults of models.py; exists = the row is in the table
NewUser ==
    [exists |-> FALSE, total_contributed |-> 0, total_burned |-> 0,
     campaigns_supported |-> 0, campaigns_created |-> 0]

\* Campaign(...) as built by a creation, the other columns at their defaults
NewCampaign(creator, category, goal_usd, goal_pls, n, deposit, total_deposit, ends, fee) ==
    [creator_id |-> creator, category |-> category, goal_usd |-> goal_usd,
     goal_pls |-> goal_pls, duration_days |-> DefaultDurationDays,
     num_milestones |-> n, creator_deposit_per_stage |-> deposit,
     total_creator_deposit |-> total_deposit, ends_at |-> ends,
     is_active |-> TRUE, total_raised_pls |-> 0, total_raised_usd |-> 0,
     total_burned_pls |-> 0, creation_fee_burned |-> fee, supporter_count |-> 0,
     contribution_velocity |-> Rat(0, 1), created_at |-> 0]

NewMilestone_released(cid, stage, required, deposit) ==
    [campaign_id |-> cid, stage_number |-> stage, required_amount_pls |-> required,
     creator_deposit_pls |-> deposit, is_completed |-> TRUE, is_verified |-> TRUE,
     funds_released |-> TRUE]

NewMilestone(cid, stage, required, deposit) ==
    [campaign_id |-> cid, stage_number |-> stage, required_amount_pls |-> required,
     creator_deposit_pls |-> deposit, is_completed |-> FALSE, is_verified |-> FALSE,
     funds_released |-> FALSE]

NewBurnStats(day, total_to_date) ==
    [date |-> day, daily_contribution_burn |-> 0, daily_creation_burn |-> 0,
     daily_total_burn |-> 0, campaigns_created |-> 0, contributions_made |-> 0,
     total_burn_to_date |-> total_to_date]

\* the campaigns present before the first request: two active, one inactive
SeedCampaign(active) ==
    [NewCampaign(SeedCreator, "charity", 3, 20000, 4, 2000, 20000,
                 1 + DefaultDurationDays, 15) EXCEPT !.is_active = active]

InitDb ==
    [users |-> [w \in AllWallets |->
                   IF w = SeedCreator
                   THEN [NewUser EXCEPT !.exists = TRUE, !.campaigns_created = 3]
                   ELSE [NewUser EXCEPT !.exists = (w = "w1")]],
     campaigns |-> << SeedCampaign(TRUE), SeedCampaign(TRUE), SeedCampaign(FALSE) >>,
     contributions |-> << >>,
     milestones |-> << >>,
     burn_stats |-> << >>,
     achievements |-> [w \in AllWallets |-> [t \in AchievementTypes |-> 0]]]

(* -------------------------- pure functions ---------------------------- *)
calculate_burn_tenth(amount_pls) == amount_pls \div 10

calculate_burn(amount_pls) == (amount_pls * CONTRIBUTION_BURN_RATE) \div 100

\* amount_pls * pls_price, in micro-USD
amount_usd_of(amount_pls) == amount_pls * MOCK_PLS_PRICE

\* goal_usd / pls_price: whole USD to PLS
goal_pls_of(goal_usd) == (goal_usd * 1000000) \div MOCK_PLS_PRICE

\* Python's a / b on operands whose quotient is a whole number
Quot(a, b) == IF b < 0 THEN 0 - (a \div (0 - b)) ELSE a \div b

\* BurnStats.query.filter_by(date=day).first(): the row's index, 0 for None
StatsIndex_none(stats, day) == 0

StatsIndex(stats, day) ==
    IF \E i \in 1..Len(stats) : stats[i].date = day
    THEN CHOOSE i \in 1..Len(stats) :
            /\ stats[i].date = day
            /\ \A j \in 1..Len(stats) : stats[j].date = day => i <= j
    ELSE 0

\* BurnStats.query.order_by(BurnStats.date.desc()).first().total_burn_to_date, 0.0 for None
LatestTotal_zero(stats) == 0

LatestTotal(stats) ==
    IF stats = << >> THEN 0
    ELSE LET i == CHOOSE k \in 1..Len(stats) :
                     \A j \in 1..Len(stats) : stats[j].date <= stats[k].date
         IN stats[i].total_burn_to_date

\* update_burn_stats up to its commit: the burn_stats table after the call
update_burn_stats(stats, day, contribution_burn, creation_burn) ==
    LET i0 == StatsIndex(stats, day)
        withRow == IF i0 = 0 THEN Append(stats, NewBurnStats(day, LatestTotal(stats)))
                   ELSE stats
        i == IF i0 = 0 THEN Len(withRow) ELSE i0
        r == withRow[i]
    IN [withRow EXCEPT ![i] =
          [r EXCEPT
             !.daily_contribution_burn = @ + contribution_burn,
             !.daily_creation_burn = @ + creation_burn,
             !.daily_total_burn = @ + (contribution_burn + creation_burn),
             !.total_burn_to_date = @ + (contribution_burn + creation_burn),
             !.contributions_made = IF contribution_burn > 0 THEN @ + 1 ELSE @,
             !.campaigns_created = IF creation_burn > 0 THEN @ + 1 ELSE @]]

\* datetime.utcnow() at the first minute of a day, in minutes
DayStart(day) == (day - 1) * 24 * 60

\* q >= t for a quotient q
AtLeast(q, t) == q.num >= t * q.den

\* Campaign.progress_percentage: min((total_raised_pls / goal_pls) * 100, 100)
progress_percentage(c) ==
    IF c.goal_pls > 0
    THEN IF c.total_raised_pls >= c.goal_pls THEN Rat(100, 1)
         ELSE Rat(c.total_raised_pls * 100, c.goal_pls)
    ELSE Rat(0, 1)

\* Campaign.current_milestone_stage
current_milestone_stage_strict(c) ==
    LET progress == progress_percentage(c)
    IN IF progress.num > 100 * progress.den THEN 100
       ELSE IF progress.num > 75 * progress.den THEN 75
       ELSE IF progress.num > 50 * progress.den THEN 50
       ELSE IF progress.num > 25 * progress.den THEN 25
       ELSE 0

current_milestone_stage(c) ==
    LET progress == progress_percentage(c)
    IN IF AtLeast(progress, 100) THEN 100
       ELSE IF AtLeast(progress, 75) THEN 75
       ELSE IF AtLeast(progress, 50) THEN 50
       ELSE IF AtLeast(progress, 25) THEN 25
       ELSE 0

\* calculate_campaign_velocity, elapsed = utcnow() - created_at in minutes:
\* total_raised_pls / max(elapsed / 60, 1), PLS per hour
calculate_campaign_velocity_unfloored(campaign, elapsed) ==
    IF campaign.total_raised_pls = 0 THEN Rat(0, 1)
    ELSE Rat(campaign.total_raised_pls * 60, elapsed)

calculate_campaign_velocity(campaign, elapsed) ==
    IF campaign.total_raised_pls = 0 THEN Rat(0, 1)
    ELSE Rat(campaign.total_raised_pls * 60, IF elapsed > 60 THEN elapsed ELSE 60)

\* User.calculate_rank_score, times 10:
\* total_contributed + total_burned * 0.20 + campaigns_supported * 0.10
calculate_rank_score(u) ==
    10 * u.total_contributed + 2 * u.total_burned + u.campaigns_supported

\* the orders in which a SELECT without ORDER BY may return the rows of S
RowOrders(S) ==
    {f \in [1..Cardinality(S) -> S] : \A i, j \in DOMAIN f : f[i] = f[j] => i = j}

\* list.sort(key=score, reverse=True): a stable sort, equal scores keep the
\* order of the input; the place of item i of seq
SortedPlace(seq, i) ==
    Cardinality({j \in DOMAIN seq : seq[j].score > seq[i].score})
      + Cardinality({j \in DOMAIN seq : j <= i /\ seq[j].score = seq[i].score})

\* seq[:limit]
Take(seq, limit) ==
    IF limit >= 0
    THEN SubSeq(seq, 1, IF limit < Len(seq) THEN limit ELSE Len(seq))
    ELSE SubSeq(seq, 1, IF Len(seq) + limit > 0 THEN Len(seq) + limit ELSE 0)

\* get_top_contributors: users = the rows of User.query.all() in the order the
\* query returned them
get_top_contributors(users, order, limit) ==
    LET scored == SelectSeq(order, LAMBDA w : users[w].total_contributed > 0)
        user_scores == [i \in DOMAIN scored |->
                          [user |-> scored[i],
                           score |-> calculate_rank_score(users[scored[i]]),
                           rank |-> 0]]
        sorted == [k \in DOMAIN user_scores |->
                     user_scores[CHOOSE i \in DOMAIN user_scores :
                                    SortedPlace(user_scores, i) = k]]
        ranked == [k \in DOMAIN sorted |-> [sorted[k] EXCEPT !.rank = k]]
    IN Take(ranked, limit)

\* a flush's UPDATE: the changed columns of a loaded row, as absolute values
FlushRow(stored, loaded, dirty) ==
    [f \in DOMAIN stored |-> IF f \in dirty THEN loaded[f] ELSE stored[f]]

\* a flush's INSERTs of the pending Achievement rows of user w
InsertAchievements(d, w, types) ==
    [d EXCEPT !.achievements[w] =
        [t \in AchievementTypes |-> IF t \in types THEN @[t] + 1 ELSE @[t]]]

(* ------------------------------ state --------------------------------- *)
VARIABLES db, tx, lock, today, sess

vars == << db, tx, lock, today, sess >>

\* a session with no request
IdleSess ==
    [pc |-> "idle", op |-> "none", wallet |-> SeedCreator, cid |-> 0, amount |-> 0,
     title |-> NoneVal, category |-> NoneVal, goal_usd |-> 0, num_milestones |-> 0,
     user |-> NewUser, user_expired |-> FALSE, udirty |-> {},
     camp |-> SeedCampaign(TRUE), cdirty |-> {},
     burned_pls |-> 0, to_campaign_pls |-> 0, amount_usd |-> 0,
     pending_campaign |-> << >>, pending_milestones |-> << >>,
     rule |-> 1, pending |-> {}, new_achievements |-> << >>,
     limit |-> 0, board |-> << >>, elapsed |-> 0, velocity |-> Rat(0, 1),
     progress |-> Rat(0, 1), stage |-> 0,
     result |-> "none", db0 |-> InitDb]

Init ==
    /\ db = InitDb
    /\ tx = InitDb
    /\ lock = 0
    /\ today = 1
    /\ sess = [p \in Procs |-> IdleSess]

\* what a SELECT of session p sees
View(p) == IF lock = p THEN tx ELSE db

\* the rows written so far and the requests in flight
OpsUsed ==
    Len(db.contributions) + (Len(db.campaigns) - Len(InitDb.campaigns))
        + Cardinality({q \in Procs : sess[q].pc # "idle"})

(* ---------------------------- contribute ------------------------------ *)
\* app.py 513-525: get_or_create_user (INSERT and commit when the wallet is
\* new), then the amount check
ContributeBegin(p, w, c, a) ==
    /\ sess[p].pc = "idle"
    /\ OpsUsed < MaxOps
    /\ db.users[w].exists \/ lock = 0
    /\ db' = [db EXCEPT !.users[w].exists = TRUE]
    /\ tx' = IF lock = 0 THEN db' ELSE tx
    /\ sess' = [sess EXCEPT ![p] =
          [IdleSess EXCEPT
             !.pc = IF a <= 0 THEN "done" ELSE "c_campaign",
             !.op = "contribute", !.wallet = w, !.cid = c, !.amount = a,
             !.user = [db.users[w] EXCEPT !.exists = TRUE],
             !.user_expired = ~db.users[w].exists,
             !.result = IF a <= 0 THEN "400" ELSE "none",
             !.db0 = db]]
    /\ UNCHANGED << lock, today >>

\* app.py 527-528: Campaign.query.filter_by(campaign_id=).first() finds no row,
\* or the row is not active
CampaignUnavailable_anyRow(d, cid) == cid \notin 1..Len(d.campaigns)

CampaignUnavailable_ended(d, cid) ==
    \/ cid \notin 1..Len(d.campaigns)
    \/ ~d.campaigns[cid].is_active
    \/ today >= d.campaigns[cid].ends_at
    \/ d.campaigns[cid].total_raised_pls >= d.campaigns[cid].goal_pls

CampaignUnavailable(d, cid) ==
    \/ cid \notin 1..Len(d.campaigns)
    \/ ~d.campaigns[cid].is_active

\* app.py 554-556: the loaded campaign with its totals raised
RaiseTotals_gross(c, to_campaign, usd, burned) ==
    [c EXCEPT !.total_raised_pls = @ + to_campaign + burned,
              !.total_raised_usd = @ + usd,
              !.total_burned_pls = @ + burned]

RaiseTotals_towardGoal(c, to_campaign, usd, burned) ==
    [c EXCEPT !.total_raised_pls = @ + to_campaign,
              !.total_raised_usd = @ + usd,
              !.total_burned_pls = @ + burned,
              !.goal_pls = @ - to_campaign]

RaiseTotals(c, to_campaign, usd, burned) ==
    [c EXCEPT !.total_raised_pls = @ + to_campaign,
              !.total_raised_usd = @ + usd,
              !.total_burned_pls = @ + burned]

\* app.py 527-556: load the campaign, reject a missing or inactive one, compute
\* the split and the fiat value, add the Contribution, raise the loaded totals
ContributeLoad(p) ==
    LET s == sess[p]
    IN /\ s.pc = "c_campaign"
       /\ IF CampaignUnavailable(db, s.cid)
          THEN sess' = [sess EXCEPT ![p].pc = "done", ![p].result = "404"]
          ELSE LET burned == calculate_burn(s.amount)
                   to_campaign == s.amount - burned
                   usd == amount_usd_of(s.amount)
                   c == db.campaigns[s.cid]
               IN sess' = [sess EXCEPT
                     ![p].pc = "c_flush",
                     ![p].burned_pls = burned,
                     ![p].to_campaign_pls = to_campaign,
                     ![p].amount_usd = usd,
                     ![p].user = IF s.user_expired THEN db.users[s.wallet] ELSE @,
                     ![p].user_expired = FALSE,
                     ![p].camp = RaiseTotals(c, to_campaign, usd, burned),
                     ![p].cdirty = {f \in DOMAIN c :
                                       c[f] # RaiseTotals(c, to_campaign, usd, burned)[f]}]
       /\ UNCHANGED << db, tx, lock, today >>

\* app.py 540-549: the Contribution row of the request of session s
ContributionRow_gross(s) ==
    [campaign_id |-> s.cid, contributor_id |-> s.wallet, amount_pls |-> s.amount,
     amount_usd |-> s.amount_usd, burned_pls |-> s.burned_pls,
     to_campaign_pls |-> s.amount]

ContributionRow(s) ==
    [campaign_id |-> s.cid, contributor_id |-> s.wallet, amount_pls |-> s.amount,
     amount_usd |-> s.amount_usd, burned_pls |-> s.burned_pls,
     to_campaign_pls |-> s.to_campaign_pls]

\* Contribution.query.filter_by(campaign_id=, contributor_id=).count()
CountContributions(d, c, w) ==
    Cardinality({i \in 1..Len(d.contributions) :
                    /\ d.contributions[i].campaign_id = c
                    /\ d.contributions[i].contributor_id = w})

\* app.py 560-566: the loaded user with its counters raised
RaiseUser_net(u, amount_pls, burned_pls, first) ==
    [u EXCEPT !.campaigns_supported = IF first THEN @ + 1 ELSE @,
              !.total_contributed = @ + (amount_pls - burned_pls),
              !.total_burned = @ + burned_pls]

RaiseUser(u, amount_pls, burned_pls, first) ==
    [u EXCEPT !.campaigns_supported = IF first THEN @ + 1 ELSE @,
              !.total_contributed = @ + amount_pls,
              !.total_burned = @ + burned_pls]

\* app.py 559-566: the count query autoflushes the session (INSERT of the
\* Contribution, UPDATE of the campaign totals) and counts inside the
\* transaction; then the supporter and user counters are raised in memory
ContributeFlush(p) ==
    LET s == sess[p]
        flushed == [db EXCEPT
                      !.contributions = Append(@, ContributionRow(s)),
                      !.campaigns[s.cid] = FlushRow(@, s.camp, s.cdirty)]
        existing_contributions == CountContributions(flushed, s.cid, s.wallet)
        first == existing_contributions = 0
    IN /\ s.pc = "c_flush"
       /\ lock = 0
       /\ lock' = p
       /\ tx' = flushed
       /\ sess' = [sess EXCEPT
             ![p].pc = "c_burn",
             ![p].camp = IF first THEN [@ EXCEPT !.supporter_count = @ + 1] ELSE @,
             ![p].cdirty = IF first THEN {"supporter_count"} ELSE {},
             ![p].user = RaiseUser(@, s.amount, s.burned_pls, first),
             ![p].udirty = (IF first THEN {"campaigns_supported"} ELSE {})
                              \cup {"total_contributed", "total_burned"}]
       /\ UNCHANGED << db, today >>

\* app.py 569 -> 49-76: update_burn_stats; its first query autoflushes the
\* user and campaign changes
ContributeRecord(p) ==
    LET s == sess[p]
    IN /\ s.pc = "c_burn"
       /\ lock = p
       /\ tx' = [tx EXCEPT
             !.users[s.wallet] = FlushRow(@, s.user, s.udirty),
             !.campaigns[s.cid] = FlushRow(@, s.camp, s.cdirty),
             !.burn_stats = update_burn_stats(@, today, s.burned_pls, 0)]
       /\ sess' = [sess EXCEPT ![p].pc = "c_commit1", ![p].udirty = {}, ![p].cdirty = {}]
       /\ UNCHANGED << db, lock, today >>

\* app.py 78: the commit inside update_burn_stats
ContributeCommit1(p) ==
    /\ sess[p].pc = "c_commit1"
    /\ lock = p
    /\ db' = tx
    /\ lock' = 0
    /\ sess' = [sess EXCEPT ![p].pc = "c_ach", ![p].user_expired = TRUE, ![p].rule = 1]
    /\ UNCHANGED << tx, today >>

\* Achievement.query.filter_by(user_id=, achievement_type=).first() is not None
AlreadyAwarded_never(image, w, type) == FALSE

AlreadyAwarded(image, w, type) == image.achievements[w][type] > 0

\* app.py 86-158, one rule: the threshold test on the (re)loaded user, the
\* existence query (which autoflushes the Achievement added by the rule
\* before), the add
EvaluateRule(p) ==
    LET s == sess[p]
        u == IF s.user_expired THEN View(p).users[s.wallet] ELSE s.user
        r == Rules[s.rule]
        holds == u[r.field] >= r.threshold
        flushes == holds /\ s.pending # {}
        image == IF flushes THEN InsertAchievements(View(p), s.wallet, s.pending)
                 ELSE View(p)
        exists == AlreadyAwarded(image, s.wallet, r.type)
        award == holds /\ ~exists
    IN /\ s.pc = "c_ach"
       /\ flushes => lock \in {0, p}
       /\ lock' = IF flushes THEN p ELSE lock
       /\ tx' = IF flushes THEN image ELSE tx
       /\ sess' = [sess EXCEPT
             ![p].pc = IF s.rule = Len(Rules) THEN "c_ach_commit" ELSE "c_ach",
             ![p].rule = IF s.rule = Len(Rules) THEN 1 ELSE s.rule + 1,
             ![p].user = u,
             ![p].user_expired = FALSE,
             ![p].pending = IF award THEN {r.type}
                            ELSE IF flushes THEN {} ELSE @,
             ![p].new_achievements =
                 IF award THEN Append(@, [type |-> r.type, tier |-> r.tier]) ELSE @]
       /\ UNCHANGED << db, today >>

\* app.py 160: the commit of check_and_award_achievements
EvaluateCommit(p) ==
    LET s == sess[p]
        writes == s.pending # {} \/ lock = p
    IN /\ s.pc = "c_ach_commit"
       /\ writes => lock \in {0, p}
       /\ db' = IF writes THEN InsertAchievements(View(p), s.wallet, s.pending) ELSE db
       /\ tx' = IF writes THEN db' ELSE tx
       /\ lock' = IF writes THEN 0 ELSE lock
       /\ sess' = [sess EXCEPT ![p].pc = "c_final", ![p].pending = {},
                                ![p].user_expired = TRUE]
       /\ UNCHANGED today

\* app.py 574-582: the last commit (nothing is pending) and the response
ContributeFinal(p) ==
    /\ sess[p].pc = "c_final"
    /\ sess' = [sess EXCEPT ![p].pc = "done", ![p].result = "200"]
    /\ UNCHANGED << db, tx, lock, today >>

(* --------------------------- create_campaign -------------------------- *)
\* app.py 396: not title or not category or goal_usd <= 0
InvalidCampaignData_anyGoal(title, category, goal_usd) ==
    title \in {NoneVal, ""} \/ category \in {NoneVal, ""}

InvalidCampaignData(title, category, goal_usd) ==
    title \in {NoneVal, ""} \/ category \in {NoneVal, ""} \/ goal_usd <= 0

\* app.py 376-397: get_or_create_user, then the validation of the input
CreateBegin(p, w, title, category, goal_usd, n) ==
    LET invalid == InvalidCampaignData(title, category, goal_usd)
    IN /\ sess[p].pc = "idle"
       /\ OpsUsed < MaxOps
       /\ db.users[w].exists \/ lock = 0
       /\ db' = [db EXCEPT !.users[w].exists = TRUE]
       /\ tx' = IF lock = 0 THEN db' ELSE tx
       /\ sess' = [sess EXCEPT ![p] =
             [IdleSess EXCEPT
                !.pc = IF invalid THEN "done" ELSE "k_build",
                !.op = "create", !.wallet = w, !.title = title,
                !.category = category, !.goal_usd = goal_usd, !.num_milestones = n,
                !.user = [db.users[w] EXCEPT !.exists = TRUE],
                !.user_expired = ~db.users[w].exists,
                !.result = IF invalid THEN "400" ELSE "none",
                !.db0 = db]]
       /\ UNCHANGED << lock, today >>

\* Config.CREATION_FEES.get(category, 25)
creation_fee_of_default(category) == DefaultCreationFee

creation_fee_of(category) ==
    IF category \in DOMAIN CREATION_FEES THEN CREATION_FEES[category]
    ELSE DefaultCreationFee

\* app.py 435-446: the Milestone rows; campaign.id is read before any flush
\* gave the pending campaign a key, so campaign_id is None (0)
MilestoneRows(goal_pls, n, deposit) ==
    [i \in 1..(IF n > 0 THEN n ELSE 0) |->
        NewMilestone(0, i, Quot(goal_pls, n) * i, deposit)]

\* app.py 399-449: the amounts (num_milestones = 0 raises ZeroDivisionError),
\* the pending Campaign and Milestone rows, campaigns_created += 1 in memory
CreateBuild(p) ==
    LET s == sess[p]
        n == s.num_milestones
        goal_pls == goal_pls_of(s.goal_usd)
    IN /\ s.pc = "k_build"
       /\ IF n = 0
          THEN sess' = [sess EXCEPT ![p].pc = "done", ![p].result = "500"]
          ELSE LET deposit_per_stage == Quot(goal_pls, n)
                   total_creator_deposit == deposit_per_stage * n
                   u == IF s.user_expired THEN db.users[s.wallet] ELSE s.user
               IN sess' = [sess EXCEPT
                     ![p].pc = "k_burn",
                     ![p].pending_campaign =
                         << NewCampaign(s.wallet, s.category, s.goal_usd, goal_pls, n,
                                        deposit_per_stage, total_creator_deposit,
                                        today + DefaultDurationDays,
                                        creation_fee_of(s.category)) >>,
                     ![p].pending_milestones = MilestoneRows(goal_pls, n, deposit_per_stage),
                     ![p].user = [u EXCEPT !.campaigns_created = @ + 1],
                     ![p].user_expired = FALSE,
                     ![p].udirty = {"campaigns_created"}]
       /\ UNCHANGED << db, tx, lock, today >>

\* milestones.campaign_id is nullable=False: the INSERT of a row whose
\* campaign_id is None raises IntegrityError
ViolatesNotNull(rows) == \E i \in 1..Len(rows) : rows[i].campaign_id = 0

\* app.py 452 -> 49-76: update_burn_stats(creation_burn=fee); its first query
\* autoflushes the pending Campaign, Milestones and the user
CreateRecord(p) ==
    LET s == sess[p]
    IN /\ s.pc = "k_burn"
       /\ lock = 0
       /\ IF ViolatesNotNull(s.pending_milestones)
          THEN /\ sess' = [sess EXCEPT ![p].pc = "done", ![p].result = "500"]
               /\ UNCHANGED << tx, lock >>
          ELSE /\ tx' = [db EXCEPT
                     !.campaigns = @ \o << [s.pending_campaign[1] EXCEPT
                                                !.created_at = DayStart(today)] >>,
                     !.milestones = @ \o s.pending_milestones,
                     !.users[s.wallet] = FlushRow(@, s.user, s.udirty),
                     !.burn_stats = update_burn_stats(@, today, 0,
                                        s.pending_campaign[1].creation_fee_burned)]
               /\ lock' = p
               /\ sess' = [sess EXCEPT ![p].pc = "k_commit1", ![p].udirty = {}]
       /\ UNCHANGED << db, today >>

\* app.py 78: the commit inside update_burn_stats
CreateCommit1(p) ==
    /\ sess[p].pc = "k_commit1"
    /\ lock = p
    /\ db' = tx
    /\ lock' = 0
    /\ sess' = [sess EXCEPT ![p].pc = "k_final", ![p].user_expired = TRUE]
    /\ UNCHANGED << tx, today >>

\* app.py 454-462: the last commit (nothing is pending) and the response
CreateFinal(p) ==
    /\ sess[p].pc = "k_final"
    /\ sess' = [sess EXCEPT ![p].pc = "done", ![p].result = "200"]
    /\ UNCHANGED << db, tx, lock, today >>

(* ------------------------------- reads -------------------------------- *)
\* the minutes between a campaign's created_at and utcnow()
Elapsed(c, minute) == DayStart(today) + minute - c.created_at

\* app.py 590-605: the leaderboard page; User.query.all() has no ORDER BY
Leaderboard(p, order, limit) ==
    /\ sess[p].pc = "idle"
    /\ order \in RowOrders({w \in AllWallets : db.users[w].exists})
    /\ sess' = [sess EXCEPT ![p] =
          [IdleSess EXCEPT
             !.pc = "done", !.op = "leaderboard", !.limit = limit,
             !.board = get_top_contributors(db.users, order, limit),
             !.result = "200", !.db0 = db]]
    /\ UNCHANGED << db, tx, lock, today >>

\* app.py 470-503: the campaign page; the velocity is set on the loaded row
\* and never flushed, the page shows the progress and the stage
ViewCampaign(p, c, minute) ==
    /\ sess[p].pc = "idle"
    /\ IF c \notin 1..Len(db.campaigns)
       THEN sess' = [sess EXCEPT ![p] =
               [IdleSess EXCEPT !.pc = "done", !.op = "view", !.cid = c,
                                !.result = "404", !.db0 = db]]
       ELSE LET campaign == db.campaigns[c]
            IN sess' = [sess EXCEPT ![p] =
                  [IdleSess EXCEPT
                     !.pc = "done", !.op = "view", !.cid = c,
                     !.camp = campaign,
                     !.elapsed = Elapsed(campaign, minute),
                     !.velocity = calculate_campaign_velocity(
                                      campaign, Elapsed(campaign, minute)),
                     !.progress = progress_percentage(campaign),
                     !.stage = current_milestone_stage(campaign),
                     !.result = "200", !.db0 = db]]
    /\ UNCHANGED << db, tx, lock, today >>

\* app.py 220-226: the home page sets the velocity of every active campaign
\* and commits
IndexPage(p, minute) ==
    /\ sess[p].pc = "idle"
    /\ lock = 0
    /\ db' = [db EXCEPT !.campaigns =
          [c \in DOMAIN db.campaigns |->
              LET campaign == db.campaigns[c]
              IN IF campaign.is_active
                 THEN [campaign EXCEPT !.contribution_velocity =
                          calculate_campaign_velocity(
                              campaign, Elapsed(campaign, minute))]
                 ELSE campaign]]
    /\ tx' = db'
    /\ sess' = [sess EXCEPT ![p] =
          [IdleSess EXCEPT !.pc = "done", !.op = "index", !.result = "200",
                           !.db0 = db]]
    /\ UNCHANGED << lock, today >>

(* ------------------------------ requests ------------------------------ *)
\* an exception after the Contribution (the Campaign) was added: the request
\* ends with a 500 and the session is rolled back on teardown
Fail(p) ==
    /\ sess[p].pc \in {"c_flush", "c_burn", "c_commit1", "c_ach", "c_ach_commit",
                       "c_final", "k_burn", "k_commit1", "k_final"}
    /\ tx' = IF lock = p THEN db ELSE tx
    /\ lock' = IF lock = p THEN 0 ELSE lock
    /\ sess' = [sess EXCEPT ![p].pc = "done", ![p].result = "500", ![p].pending = {}]
    /\ UNCHANGED << db, today >>

\* the response is sent, the session is removed
Finish(p) ==
    /\ sess[p].pc = "done"
    /\ sess' = [sess EXCEPT ![p] = IdleSess]
    /\ UNCHANGED << db, tx, lock, today >>

\* date.today() moves on
Tick ==
    /\ today < MaxDay
    /\ today' = today + 1
    /\ UNCHANGED << db, tx, lock, sess >>

\* the steps of a contribute request after its first
ContributeRun(p) ==
    \/ ContributeLoad(p)
    \/ ContributeFlush(p)
    \/ ContributeRecord(p)
    \/ ContributeCommit1(p)
    \/ EvaluateRule(p)
    \/ EvaluateCommit(p)
    \/ ContributeFinal(p)
    \/ Finish(p)

ContributeStep(p) ==
    \/ \E w \in Wallets, c \in 0..3, a \in Amounts : ContributeBegin(p, w, c, a)
    \/ ContributeRun(p)

CreateStep(p) ==
    \/ \E w \in Wallets, title \in Titles, category \in Categories,
          goal_usd \in GoalUsds, n \in MilestoneCounts :
            CreateBegin(p, w, title, category, goal_usd, n)
    \/ CreateBuild(p)
    \/ CreateRecord(p)
    \/ CreateCommit1(p)
    \/ CreateFinal(p)

\* requests served one at a time, by one worker
Worker == CHOOSE p \in Procs : \A q \in Procs : p <= q

Next ==
    \/ ContributeStep(Worker)
    \/ CreateStep(Worker)
    \/ Tick

Spec == Init /\ [][Next]_vars

\* requests served one at a time, any of which may fail
NextFail ==
    \/ ContributeStep(Worker)
    \/ CreateStep(Worker)
    \/ Fail(Worker)
    \/ Tick

SpecFail == Init /\ [][NextFail]_vars

\* contributions served concurrently, one session each
NextConc ==
    \/ \E p \in Procs : ContributeStep(p)
    \/ Tick

SpecConc == Init /\ [][NextConc]_vars

\* accepted contributions of one wallet to one campaign, served concurrently
NextRecord ==
    \/ \E p \in Procs :
          \/ \E a \in {x \in Amounts : x > 0} : ContributeBegin(p, "w1", 1, a)
          \/ ContributeRun(p)
    \/ Tick

SpecRecord == Init /\ [][NextRecord]_vars

\* contributions of one wallet to one campaign, one at a time, small and large
NextBadges ==
    \/ \E a \in BadgeAmounts : ContributeBegin(Worker, "w1", 1, a)
    \/ ContributeRun(Worker)

SpecBadges == Init /\ [][NextBadges]_vars

\* init_db: a sample campaign ends 1 to 90 days after seeding and has raised
\* 0.1 to 0.9 of its goal, with some of it burned, from 5 to 50 supporters;
\* this one ends the next day and is 0.9 of the way to its goal
LateCampaign ==
    [SeedCampaign(TRUE) EXCEPT !.ends_at = 2,
                               !.total_raised_pls = 18000,
                               !.total_burned_pls = 180,
                               !.supporter_count = 5]

InitLate ==
    /\ db = [InitDb EXCEPT !.campaigns[1] = LateCampaign]
    /\ tx = db
    /\ lock = 0
    /\ today = 1
    /\ sess = [p \in Procs |-> IdleSess]

SpecLate == InitLate /\ [][Next]_vars

\* the store after db.create_all() alone: every table empty
EmptyDb ==
    [InitDb EXCEPT !.users = [w \in AllWallets |-> NewUser],
                   !.campaigns = << >>]

InitEmpty ==
    /\ db = EmptyDb
    /\ tx = EmptyDb
    /\ lock = 0
    /\ today = 1
    /\ sess = [p \in Procs |-> IdleSess]

\* requests served one at a time on the empty store: a request begins while
\* fewer than MaxOps rows are stored
NextEmpty ==
    \/ /\ Len(db.campaigns) + Len(db.contributions) < MaxOps
       /\ \/ \E w \in Wallets, c \in 0..MaxOps, a \in Amounts :
                ContributeBegin(Worker, w, c, a)
          \/ \E w \in Wallets, title \in Titles, category \in Categories,
                goal_usd \in GoalUsds, n \in MilestoneCounts :
                  CreateBegin(Worker, w, title, category, goal_usd, n)
    \/ ContributeRun(Worker)
    \/ CreateBuild(Worker)
    \/ CreateRecord(Worker)
    \/ CreateCommit1(Worker)
    \/ CreateFinal(Worker)
    \/ Tick

SpecEmpty == InitEmpty /\ [][NextEmpty]_vars

ReadStep(p) ==
    \/ \E order \in RowOrders({w \in AllWallets : db.users[w].exists}),
          limit \in Limits : Leaderboard(p, order, limit)
    \/ \E c \in 0..3, minute \in Minutes : ViewCampaign(p, c, minute)
    \/ Finish(p)

\* the requests and the pages of one day, served one at a time
NextRead ==
    \/ ContributeStep(Worker)
    \/ CreateStep(Worker)
    \/ \E minute \in Minutes : IndexPage(Worker, minute)
    \/ ReadStep(Worker)

SpecRead == Init /\ [][NextRead]_vars

\* init_db: sample users with counters of their own
InitRank ==
    /\ \E profile \in [AllWallets -> UserProfiles] :
          db = [InitDb EXCEPT !.users =
                  [w \in AllWallets |->
                      [InitDb.users[w] EXCEPT
                         !.exists = TRUE,
                         !.total_contributed = profile[w].total_contributed,
                         !.total_burned = profile[w].total_burned,
                         !.campaigns_supported = profile[w].campaigns_supported]]]
    /\ tx = db
    /\ lock = 0
    /\ today = 1
    /\ sess = [p \in Procs |-> IdleSess]

\* the leaderboard asked for by two clients
NextRank ==
    \E p \in Procs :
        \/ \E order \in RowOrders(AllWallets), limit \in Limits :
              Leaderboard(p, order, limit)
        \/ Finish(p)

SpecRank == InitRank /\ [][NextRank]_vars

\* init_db: a sample campaign with a goal and a raised total of its own
InitCalc ==
    /\ \E goal \in SampleGoals, raised \in SampleRaised :
          db = [InitDb EXCEPT !.campaigns[1].goal_pls = goal,
                              !.campaigns[1].total_raised_pls = raised]
    /\ tx = db
    /\ lock = 0
    /\ today = 1
    /\ sess = [p \in Procs |-> IdleSess]

NextCalc ==
    \/ \E c \in 0..3, minute \in Minutes : ViewCampaign(Worker, c, minute)
    \/ Finish(Worker)
    \/ Tick

SpecCalc == InitCalc /\ [][NextCalc]_vars

(* ============================ properties ============================== *)
\* the ledger content of an image: every table, a user row counted as
\* present (get_or_create_user may insert one with all counters at 0)
Ledger(d) ==
    [d EXCEPT !.users = [w \in AllWallets |-> [d.users[w] EXCEPT !.exists = TRUE]]]

RECURSIVE SumFor(_, _, _)
SumFor(rows, c, f) ==
    IF rows = << >> THEN 0
    ELSE (IF rows[1].campaign_id = c THEN rows[1][f] ELSE 0) + SumFor(Tail(rows), c, f)

Contributors(d, c) == {w \in AllWallets : CountContributions(d, c, w) > 0}

Images == {db, tx}

\* C1: every stored Contribution row has burned_pls = amount_pls x burn rate
\* and burned_pls + to_campaign_pls = amount_pls
C1_SplitExact ==
    \A d \in Images : \A i \in 1..Len(d.contributions) :
        LET r == d.contributions[i]
        IN /\ r.burned_pls * 100 = r.amount_pls * CONTRIBUTION_BURN_RATE
           /\ r.burned_pls + r.to_campaign_pls = r.amount_pls

C1_Witness ==
    \E i \in 1..Len(db.contributions) :
        /\ db.contributions[i].amount_pls = 10000
        /\ db.contributions[i].burned_pls = 100
        /\ db.contributions[i].to_campaign_pls = 9900

\* C2: a campaign's total_raised_pls and total_burned_pls are the sums of
\* to_campaign_pls and burned_pls over the Contribution rows of that campaign
C2_TotalsAreSums ==
    \A c \in 1..Len(db.campaigns) :
        /\ db.campaigns[c].total_raised_pls = SumFor(db.contributions, c, "to_campaign_pls")
        /\ db.campaigns[c].total_burned_pls = SumFor(db.contributions, c, "burned_pls")

C2_Witness ==
    /\ Len(db.contributions) = 2
    /\ db.contributions[1].campaign_id = 1
    /\ db.contributions[2].campaign_id = 2
    /\ db.contributions[1].amount_pls # db.contributions[2].amount_pls
    /\ db.campaigns[1].total_raised_pls > 0
    /\ db.campaigns[2].total_raised_pls > 0

\* C3 (as claimed): a campaign's supporter_count is the number of distinct
\* wallets with a Contribution row for it
C3_SupporterCountDistinct ==
    \A c \in 1..Len(db.campaigns) :
        db.campaigns[c].supporter_count = Cardinality(Contributors(db, c))

\* C4: no user holds two Achievement rows of one achievement_type
C4_NoDuplicateAchievement ==
    \A d \in Images : \A w \in AllWallets : \A t \in AchievementTypes :
        d.achievements[w][t] <= 1

C4_Witness ==
    /\ sess[Worker].pc = "done"
    /\ sess[Worker].result = "200"
    /\ sess[Worker].new_achievements = << >>
    /\ db.achievements[sess[Worker].wallet]["first_contribution"] = 1
    /\ db.users[sess[Worker].wallet].total_contributed >= 2000

\* the rows dated before row i
Earlier(stats, i) == {j \in 1..Len(stats) : stats[j].date < stats[i].date}

\* total_burn_to_date of the most recent row dated before row i, 0 if none
PreviousTotal(stats, i) ==
    IF Earlier(stats, i) = {} THEN 0
    ELSE LET j == CHOOSE k \in Earlier(stats, i) :
                     \A m \in Earlier(stats, i) : stats[m].date <= stats[k].date
         IN stats[j].total_burn_to_date

C6_FailedContributeLeavesNothing ==
    (/\ sess[Worker].op = "contribute"
     /\ sess[Worker].pc = "done"
     /\ sess[Worker].result = "500")
    => Ledger(db) = Ledger(sess[Worker].db0)

\* C7: a Contribute with amount <= 0, or for a missing or inactive campaign,
\* ends with an error and leaves every table as it was
C7_RejectedContribute ==
    LET s == sess[Worker]
    IN (/\ s.op = "contribute"
        /\ s.pc = "done"
        /\ s.amount <= 0 \/ s.cid \notin 1..Len(db.campaigns)
              \/ ~db.campaigns[s.cid].is_active)
       => /\ s.result \in {"400", "404"}
          /\ Ledger(db) = Ledger(s.db0)

C7_Witness ==
    /\ sess[Worker].op = "contribute"
    /\ sess[Worker].pc = "done"
    /\ sess[Worker].amount > 0
    /\ sess[Worker].cid = 3
    /\ sess[Worker].result = "404"
    /\ Len(db.contributions) > 0

\* C8: a CreateCampaign without title, without category or with goal <= 0
\* ends with the validation error and leaves every table as it was
C8_RejectedCreate ==
    LET s == sess[Worker]
    IN (/\ s.op = "create"
        /\ s.pc = "done"
        /\ \/ s.title \in {NoneVal, ""}
           \/ s.category \in {NoneVal, ""}
           \/ s.goal_usd <= 0)
       => /\ s.result = "400"
          /\ Ledger(db) = Ledger(s.db0)

C8_Witness ==
    /\ sess[Worker].op = "create"
    /\ sess[Worker].pc = "done"
    /\ sess[Worker].title = "Help"
    /\ sess[Worker].category = "charity"
    /\ sess[Worker].goal_usd = 0
    /\ sess[Worker].num_milestones = -1
    /\ sess[Worker].result = "400"
    /\ Len(db.burn_stats) > 0

\* C9 (as claimed): a CreateCampaign with num_milestones < 1 is rejected and
\* creates no Campaign row, no Milestone row and no burn-stats change
C9_NoMilestonesRejected ==
    LET s == sess[Worker]
    IN (/\ s.op = "create"
        /\ s.pc = "done"
        /\ s.num_milestones < 1)
       => /\ s.result # "200"
          /\ db.campaigns = s.db0.campaigns
          /\ db.milestones = s.db0.milestones
          /\ db.burn_stats = s.db0.burn_stats

\* C10 (as claimed): two concurrent first contributions of one wallet to one
\* campaign raise supporter_count and campaigns_supported by one in total
C10_ConcurrentFirstSupport ==
    (/\ \A p \in Procs :
           /\ sess[p].op = "contribute"
           /\ sess[p].pc = "done"
           /\ sess[p].result = "200"
           /\ sess[p].wallet = sess[1].wallet
           /\ sess[p].cid = sess[1].cid
           /\ CountContributions(sess[p].db0, sess[p].cid, sess[p].wallet) = 0)
    => /\ db.campaigns[sess[1].cid].supporter_count =
             sess[1].db0.campaigns[sess[1].cid].supporter_count + 1
       /\ db.users[sess[1].wallet].campaigns_supported =
             sess[1].db0.users[sess[1].wallet].campaigns_supported + 1

\* C11 (as claimed): when two evaluations for one user interleave, at most one
\* Achievement row per (user, achievement_type) exists after both completed
C11_ConcurrentEvaluateOnce ==
    (/\ \A p \in Procs :
           /\ sess[p].op = "contribute"
           /\ sess[p].pc = "done"
           /\ sess[p].result = "200"
           /\ sess[p].wallet = sess[1].wallet)
    => \A t \in AchievementTypes : db.achievements[sess[1].wallet][t] <= 1

RECURSIVE SumField(_, _)
SumField(rows, f) ==
    IF rows = << >> THEN 0 ELSE rows[1][f] + SumField(Tail(rows), f)

\* C12: with contributions served concurrently no burn-stats increment is
\* lost: there is one BurnStats row per date, and the daily burn fields, the
\* contribution counters and the latest total_burn_to_date account for every
\* stored contribution
C12_NoLostBurnIncrement ==
    /\ \A i, j \in 1..Len(db.burn_stats) :
          db.burn_stats[i].date = db.burn_stats[j].date => i = j
    /\ SumField(db.burn_stats, "daily_contribution_burn")
          = SumField(db.contributions, "burned_pls")
    /\ SumField(db.burn_stats, "daily_total_burn")
          = SumField(db.contributions, "burned_pls")
    /\ SumField(db.burn_stats, "contributions_made") = Len(db.contributions)
    /\ LatestTotal(db.burn_stats) = SumField(db.contributions, "burned_pls")

\* both requests began before any row of the day existed, both completed
C12_Witness ==
    /\ \A p \in Procs :
          /\ sess[p].op = "contribute"
          /\ sess[p].pc = "done"
          /\ sess[p].result = "200"
          /\ sess[p].db0.burn_stats = << >>
          /\ sess[p].db0.contributions = << >>
    /\ Len(db.burn_stats) = 1
    /\ db.burn_stats[1].contributions_made = 2
    /\ db.burn_stats[1].daily_contribution_burn
          = sess[1].burned_pls + sess[2].burned_pls

\* the users a leaderboard lists
Eligible(users) == {w \in AllWallets : users[w].exists /\ users[w].total_contributed > 0}

\* the entries of board b are users with total_contributed > 0, each once,
\* with their score, in descending score order, ranked 1..N, and they are
\* the `limit` best
RankedByScore(b, users, limit) ==
    /\ Len(b) = (IF limit < Cardinality(Eligible(users)) THEN limit
                 ELSE Cardinality(Eligible(users)))
    /\ \A i \in DOMAIN b :
          /\ b[i].user \in Eligible(users)
          /\ b[i].score = calculate_rank_score(users[b[i].user])
          /\ b[i].rank = i
          /\ \A j \in DOMAIN b : i < j =>
                b[i].score >= b[j].score /\ b[i].user # b[j].user
          /\ \A w \in Eligible(users) :
                (\A j \in DOMAIN b : b[j].user # w) =>
                   calculate_rank_score(users[w]) <= b[i].score

\* C13 (as claimed): a leaderboard lists the users with total_contributed > 0
\* by descending score with ranks 1..N, cut to `limit`, and equal scores are
\* ordered by a deterministic tie-break: two leaderboards of the same stored
\* state and limit are the same list
C13_RankingDeterministic ==
    \A p \in Procs :
        (sess[p].op = "leaderboard" /\ sess[p].pc = "done") =>
            /\ RankedByScore(sess[p].board, sess[p].db0.users, sess[p].limit)
            /\ \A q \in Procs :
                  (/\ sess[q].op = "leaderboard"
                   /\ sess[q].pc = "done"
                   /\ sess[q].limit = sess[p].limit
                   /\ sess[q].db0 = sess[p].db0)
                  => sess[q].board = sess[p].board

\* C14: current_milestone_stage is the highest of 100, 75, 50, 25 that the
\* progress reaches, else 0: 25 at progress exactly 25, 50 at exactly 50, 75
\* at exactly 75, 100 whenever raised >= goal, 0 for a progress in [0, 25)
C14_StageOfProgress ==
    LET s == sess[Worker]
        c == s.camp
    IN (s.op = "view" /\ s.pc = "done" /\ s.result = "200") =>
          /\ s.progress = progress_percentage(c)
          /\ s.stage \in {0, 25, 50, 75, 100}
          /\ \A t \in {25, 50, 75, 100} :
                (s.stage >= t) <=> (c.total_raised_pls * 100 >= t * c.goal_pls)
          /\ c.total_raised_pls * 4 = c.goal_pls => s.stage = 25
          /\ c.total_raised_pls * 2 = c.goal_pls => s.stage = 50
          /\ c.total_raised_pls * 4 = c.goal_pls * 3 => s.stage = 75
          /\ c.total_raised_pls >= c.goal_pls => s.stage = 100
          /\ (0 <= c.total_raised_pls /\ c.total_raised_pls * 4 < c.goal_pls)
                => s.stage = 0

C14_Witness ==
    /\ sess[Worker].op = "view"
    /\ sess[Worker].pc = "done"
    /\ sess[Worker].camp.goal_pls = 400
    /\ sess[Worker].camp.total_raised_pls = 300
    /\ sess[Worker].stage = 75

\* C20: calculate_campaign_velocity is 0 when nothing was raised, otherwise
\* total_raised_pls / max(hours since creation, 1): for raised > 0 it is
\* > 0, at most total_raised_pls, and total_raised_pls during the first hour
C20_VelocityBounds ==
    LET s == sess[Worker]
        raised == s.camp.total_raised_pls
        v == s.velocity
    IN (s.op = "view" /\ s.pc = "done" /\ s.result = "200") =>
          /\ v.den > 0
          /\ raised = 0 => v.num = 0
          /\ raised > 0 =>
                /\ v.num > 0
                /\ v.num <= raised * v.den
                /\ s.elapsed <= 60 => v.num = raised * v.den
                /\ s.elapsed > 60 => v = Rat(raised * 60, s.elapsed)

C20_Witness ==
    /\ sess[Worker].op = "view"
    /\ sess[Worker].pc = "done"
    /\ sess[Worker].camp.total_raised_pls = 990
    /\ sess[Worker].elapsed = 30
    /\ sess[Worker].velocity = Rat(990 * 60, 60)

\* the entries of a response's new_achievements list that name type t
Reported(s, t) == {i \in DOMAIN s.new_achievements : s.new_achievements[i].type = t}

\* C15: the Contribute that first brings the user's total_burned to >= 100
\* stores exactly one fire_starter (bronze) Achievement and reports it once;
\* a later Contribute by that user stores no further fire_starter row and does
\* not report it
C15_FireStarterOnce ==
    LET s == sess[Worker]
        before == s.db0.users[s.wallet].total_burned
        after == db.users[s.wallet].total_burned
        rows0 == s.db0.achievements[s.wallet]["fire_starter"]
        rows == db.achievements[s.wallet]["fire_starter"]
    IN (s.op = "contribute" /\ s.pc = "done" /\ s.result = "200") =>
          /\ after < 100 => rows = 0 /\ Reported(s, "fire_starter") = {}
          /\ (before < 100 /\ after >= 100) =>
                /\ rows0 = 0
                /\ rows = 1
                /\ Cardinality(Reported(s, "fire_starter")) = 1
                /\ \A i \in Reported(s, "fire_starter") :
                      s.new_achievements[i].tier = "bronze"
          /\ before >= 100 =>
                /\ rows0 = 1
                /\ rows = 1
                /\ Reported(s, "fire_starter") = {}

\* a second contribution of a user who crossed 100 with the first
C15_Witness ==
    /\ sess[Worker].op = "contribute"
    /\ sess[Worker].pc = "done"
    /\ sess[Worker].result = "200"
    /\ sess[Worker].db0.users[sess[Worker].wallet].total_burned = 100
    /\ sess[Worker].db0.achievements[sess[Worker].wallet]["fire_starter"] = 1
    /\ db.users[sess[Worker].wallet].total_burned = 110
    /\ db.achievements[sess[Worker].wallet]["fire_starter"] = 1
    /\ Reported(sess[Worker], "fire_starter") = {}

\* C16: an accepted contribution of amount a burns a / 100, credits
\* a - a / 100, and raises the campaign's total_raised_pls by the credited
\* amount (not by a) and its total_burned_pls by the burned amount; a = 1000
\* burns 10, credits 990 and raises total_raised_pls by exactly 990
C16_NetOfBurnCredited ==
    LET s == sess[Worker]
    IN (s.op = "contribute" /\ s.pc = "done" /\ s.result = "200") =>
          LET row == db.contributions[Len(db.contributions)]
              c0 == s.db0.campaigns[s.cid]
              c == db.campaigns[s.cid]
          IN /\ row.amount_pls = s.amount
             /\ row.burned_pls * 100 = s.amount
             /\ row.to_campaign_pls = s.amount - row.burned_pls
             /\ c.total_raised_pls = c0.total_raised_pls + row.to_campaign_pls
             /\ c.total_burned_pls = c0.total_burned_pls + row.burned_pls
             /\ s.amount = 1000 =>
                   /\ row.burned_pls = 10
                   /\ row.to_campaign_pls = 990
                   /\ c.total_raised_pls - c0.total_raised_pls = 990

C16_Witness ==
    /\ sess[Worker].op = "contribute"
    /\ sess[Worker].pc = "done"
    /\ sess[Worker].result = "200"
    /\ sess[Worker].amount = 1000
    /\ sess[Worker].db0.campaigns[sess[Worker].cid].total_raised_pls = 9900
    /\ db.campaigns[sess[Worker].cid].total_raised_pls = 10890
    /\ db.campaigns[sess[Worker].cid].total_burned_pls = 110

\* the Milestone rows stored for campaign c
MilestonesOf(d, c) == {i \in 1..Len(d.milestones) : d.milestones[i].campaign_id = c}

\* C17 (as claimed): a CreateCampaign with valid data and n >= 1 milestones
\* creates a campaign with goal_pls = goal_usd / price,
\* creator_deposit_per_stage = goal_pls / n, total_creator_deposit =
\* creator_deposit_per_stage x n, and n milestones, stage i requiring
\* goal_pls x i / n
C17_CreationAmounts ==
    LET s == sess[Worker]
        n == s.num_milestones
    IN (/\ s.op = "create"
        /\ s.pc = "done"
        /\ ~InvalidCampaignData(s.title, s.category, s.goal_usd)
        /\ n >= 1)
       => /\ s.result = "200"
          /\ Len(db.campaigns) = Len(s.db0.campaigns) + 1
          /\ LET id == Len(db.campaigns)
                 c == db.campaigns[id]
             IN /\ c.goal_pls * MOCK_PLS_PRICE = s.goal_usd * 1000000
                /\ c.creator_deposit_per_stage * n = c.goal_pls
                /\ c.total_creator_deposit = c.creator_deposit_per_stage * n
                /\ Cardinality(MilestonesOf(db, id)) = n
                /\ \A i \in MilestonesOf(db, id) :
                      db.milestones[i].required_amount_pls * n
                        = c.goal_pls * db.milestones[i].stage_number

RECURSIVE SumOfUser(_, _, _)
SumOfUser(rows, w, f) ==
    IF rows = << >> THEN 0
    ELSE (IF rows[1].contributor_id = w THEN rows[1][f] ELSE 0)
            + SumOfUser(Tail(rows), w, f)

\* C18: with requests completed one at a time, every user's
\* total_contributed and total_burned are the sums of amount_pls and
\* burned_pls over that user's Contribution rows, and campaigns_created is
\* the number of Campaign rows the user created
C18_UserCountersAreSums ==
    \A w \in AllWallets :
        /\ db.users[w].total_contributed = SumOfUser(db.contributions, w, "amount_pls")
        /\ db.users[w].total_burned = SumOfUser(db.contributions, w, "burned_pls")
        /\ db.users[w].campaigns_created =
              Cardinality({c \in 1..Len(db.campaigns) : db.campaigns[c].creator_id = w})

\* a user who started at zero, created a campaign and contributed
C18_Witness ==
    \E w \in Wallets :
        /\ db.users[w].campaigns_created = 1
        /\ db.users[w].total_contributed = 10000
        /\ db.users[w].total_burned = 100
        /\ sess[Worker].pc = "idle"

\* the goal of a campaign row
GoalOf(c) ==
    [goal_pls |-> c.goal_pls, goal_usd |-> c.goal_usd,
     duration_days |-> c.duration_days, ends_at |-> c.ends_at,
     num_milestones |-> c.num_milestones]

\* C19: no request (contribute, burn recording, achievement evaluation,
\* velocity recomputation, leaderboard, another creation) changes a stored
\* campaign's goal_pls, goal_usd, duration_days, ends_at or num_milestones,
\* or a stored milestone's required amount
C19_GoalFrozen ==
    [][/\ \A c \in 1..Len(db.campaigns) :
            /\ c <= Len(db'.campaigns)
            /\ GoalOf(db'.campaigns[c]) = GoalOf(db.campaigns[c])
        /\ \A i \in 1..Len(db.milestones) :
            /\ i <= Len(db'.milestones)
            /\ db'.milestones[i].campaign_id = db.milestones[i].campaign_id
            /\ db'.milestones[i].required_amount_pls
                  = db.milestones[i].required_amount_pls]_vars

\* a created campaign that received a contribution and a velocity
C19_Witness ==
    /\ Len(db.campaigns) = 4
    /\ db.campaigns[4].goal_pls = 20000
    /\ db.campaigns[4].goal_usd = 3
    /\ db.campaigns[4].ends_at = 1 + DefaultDurationDays
    /\ db.campaigns[1].total_raised_pls > 0
    /\ db.campaigns[1].contribution_velocity.num > 0
    /\ db.campaigns[1].goal_pls = 20000

\* C21 (as claimed): a CreateCampaign with valid data and n >= 1 milestones
\* succeeds, and then exactly n Milestone rows reference the new campaign,
\* with the stage numbers 1..n once each, required amounts that do not
\* decrease with the stage, and stage n requiring goal_pls
C21_MilestonesCreated ==
    LET s == sess[Worker]
        n == s.num_milestones
    IN (/\ s.op = "create"
        /\ s.pc = "done"
        /\ ~InvalidCampaignData(s.title, s.category, s.goal_usd)
        /\ n >= 1)
       => /\ s.result = "200"
          /\ Len(db.campaigns) = Len(s.db0.campaigns) + 1
          /\ LET id == Len(db.campaigns)
                 rows == MilestonesOf(db, id)
             IN /\ Cardinality(rows) = n
                /\ \A k \in 1..n :
                      Cardinality({i \in rows : db.milestones[i].stage_number = k}) = 1
                /\ \A i, j \in rows :
                      db.milestones[i].stage_number <= db.milestones[j].stage_number
                        => db.milestones[i].required_amount_pls
                             <= db.milestones[j].required_amount_pls
                /\ \A i \in rows :
                      db.milestones[i].stage_number = n
                        => db.milestones[i].required_amount_pls
                             = db.campaigns[id].goal_pls

\* C22 (as claimed): a user's campaigns_supported is the number of distinct
\* campaigns for which the user has at least one Contribution row
C22_CampaignsSupportedDistinct ==
    \A w \in AllWallets :
        db.users[w].campaigns_supported =
            Cardinality({c \in 1..Len(db.campaigns) : CountContributions(db, c, w) > 0})

\* C23 (as claimed): after two concurrent contributions of different wallets
\* to one campaign both completed, the campaign's total_raised_pls,
\* total_raised_usd and total_burned_pls include both contributions
C23_ConcurrentTotalsComplete ==
    (/\ \A p \in Procs :
           /\ sess[p].op = "contribute"
           /\ sess[p].pc = "done"
           /\ sess[p].result = "200"
           /\ sess[p].cid = sess[1].cid
     /\ sess[1].wallet # sess[2].wallet)
    => LET c == sess[1].cid
       IN /\ db.campaigns[c].total_raised_pls
                = SumFor(db.contributions, c, "to_campaign_pls")
          /\ db.campaigns[c].total_raised_usd
                = SumFor(db.contributions, c, "amount_usd")
          /\ db.campaigns[c].total_burned_pls
                = SumFor(db.contributions, c, "burned_pls")

\* the BurnStats row of a date before a call: the stored row, or the row a
\* first call of the date starts from
RowBefore(stats, day) ==
    IF StatsIndex(stats, day) = 0 THEN NewBurnStats(day, LatestTotal(stats))
    ELSE stats[StatsIndex(stats, day)]

\* table `stats` is table `stats0` with one date's row raised by one call
RecordedOnce(stats0, stats, contribution_burn, creation_burn) ==
    /\ Len(stats) \in {Len(stats0), Len(stats0) + 1}
    /\ \E i \in 1..Len(stats) :
          LET r == stats[i]
              r0 == RowBefore(stats0, r.date)
          IN /\ i > Len(stats0) <=> StatsIndex(stats0, r.date) = 0
             /\ r.daily_contribution_burn = r0.daily_contribution_burn + contribution_burn
             /\ r.daily_creation_burn = r0.daily_creation_burn + creation_burn
             /\ r.daily_total_burn
                   = r0.daily_total_burn + contribution_burn + creation_burn
             /\ r.total_burn_to_date
                   = r0.total_burn_to_date + contribution_burn + creation_burn
             /\ r.contributions_made
                   = r0.contributions_made + (IF contribution_burn > 0 THEN 1 ELSE 0)
             /\ r.campaigns_created
                   = r0.campaigns_created + (IF creation_burn > 0 THEN 1 ELSE 0)
             /\ \A j \in 1..Len(stats0) : j # i => stats[j] = stats0[j]

Untouched(m) == ~m.funds_released /\ ~m.is_completed /\ ~m.is_verified

C26_CountersMonotonic ==
    [][/\ \A w \in AllWallets :
            /\ db'.users[w].total_contributed >= db.users[w].total_contributed
            /\ db'.users[w].total_burned >= db.users[w].total_burned
            /\ db'.users[w].campaigns_supported >= db.users[w].campaigns_supported
            /\ db'.users[w].campaigns_created >= db.users[w].campaigns_created
        /\ \A c \in 1..Len(db.campaigns) :
            /\ db'.campaigns[c].total_raised_pls >= db.campaigns[c].total_raised_pls
            /\ db'.campaigns[c].total_burned_pls >= db.campaigns[c].total_burned_pls
            /\ db'.campaigns[c].supporter_count >= db.campaigns[c].supporter_count
        /\ LatestTotal(db'.burn_stats) >= LatestTotal(db.burn_stats)]_vars

\* user w holds a badge of type t
Holds(w, t) == db.achievements[w][t] >= 1

\* C27: after every completed Contribute the user holds a badge exactly when
\* the user's stored counters reach its threshold (the counters include the
\* contribution just made), and inferno_king implies flame_fanatic implies
\* fire_starter
C27_BadgeIffThreshold ==
    LET s == sess[Worker]
        w == s.wallet
        u == db.users[w]
    IN (s.op = "contribute" /\ s.pc = "done" /\ s.result = "200") =>
          /\ Holds(w, "fire_starter") <=> u.total_burned >= 100
          /\ Holds(w, "flame_fanatic") <=> u.total_burned >= 1000
          /\ Holds(w, "inferno_king") <=> u.total_burned >= 10000
          /\ Holds(w, "first_contribution") <=> u.total_contributed >= 100
          /\ Holds(w, "big_spender") <=> u.total_contributed >= 10000
          /\ Holds(w, "support_10") <=> u.campaigns_supported >= 10
          /\ Holds(w, "inferno_king") => Holds(w, "flame_fanatic")
          /\ Holds(w, "flame_fanatic") => Holds(w, "fire_starter")

\* one contribution whose burn is exactly 10000 earns the three burn badges
C27_Witness ==
    /\ sess[Worker].op = "contribute"
    /\ sess[Worker].pc = "done"
    /\ sess[Worker].result = "200"
    /\ sess[Worker].db0.users["w1"].total_burned = 0
    /\ db.users["w1"].total_burned = 10000
    /\ Holds("w1", "inferno_king")
    /\ Holds("w1", "flame_fanatic")
    /\ Holds("w1", "fire_starter")
    /\ Len(sess[Worker].new_achievements) = 5

IsEnded(d, c) == today >= d.campaigns[c].ends_at
IsSuccessful(d, c) == d.campaigns[c].total_raised_pls >= d.campaigns[c].goal_pls

\* C29: a Contribute is accepted exactly when its amount is positive and the
\* campaign exists with is_active true, whether or not the campaign has ended
\* or reached its goal; an accepted one is applied to the campaign's totals
\* and stored; and no step changes a campaign's is_active
C29_AcceptanceIgnoresEndAndGoal ==
    [][/\ \A c \in 1..Len(db.campaigns) :
            db'.campaigns[c].is_active = db.campaigns[c].is_active
       /\ LET s == sess'[Worker]
          IN (s.op = "contribute" /\ s.pc = "done") =>
                /\ s.result = "200" <=>
                      /\ s.amount > 0
                      /\ s.cid \in 1..Len(db'.campaigns)
                      /\ db'.campaigns[s.cid].is_active
                /\ s.result = "200" =>
                      /\ db'.campaigns[s.cid].total_raised_pls =
                            s.db0.campaigns[s.cid].total_raised_pls
                                + s.amount - calculate_burn(s.amount)
                      /\ Len(db'.contributions) = Len(s.db0.contributions) + 1
                      /\ db'.contributions[Len(db'.contributions)].campaign_id = s.cid
                      /\ db'.contributions[Len(db'.contributions)].amount_pls = s.amount]_vars

\* a contribution accepted by a campaign that had ended and had reached its
\* goal before the request began
C29_Witness ==
    LET s == sess[Worker]
    IN /\ s.op = "contribute"
       /\ s.pc = "done"
       /\ s.result = "200"
       /\ s.cid = 1
       /\ IsEnded(s.db0, 1)
       /\ IsSuccessful(s.db0, 1)
       /\ db.campaigns[1].total_raised_pls > s.db0.campaigns[1].total_raised_pls

\* a <= b for two fractions whose denominators are equal or 1
RatLeq(a, b) ==
    IF a.den = b.den THEN a.num <= b.num ELSE a.num * b.den <= b.num * a.den

\* C30 (as claimed): for a campaign with goal_pls > 0 the progress percentage
\* stays within 0..100, no step lowers it or the current milestone stage, a
\* campaign that is successful stays successful, and the stage is 100 exactly
\* when the campaign is successful
C30_ProgressMonotonic ==
    [][\A c \in 1..Len(db.campaigns) :
          db.campaigns[c].goal_pls > 0 =>
             LET before == db.campaigns[c]
                 after == db'.campaigns[c]
             IN /\ RatLeq(Rat(0, 1), progress_percentage(after))
                /\ RatLeq(progress_percentage(after), Rat(100, 1))
                /\ RatLeq(progress_percentage(before), progress_percentage(after))
                /\ current_milestone_stage(before) <= current_milestone_stage(after)
                /\ IsSuccessful(db, c) => IsSuccessful(db', c)
                /\ current_milestone_stage(after) = 100 <=> IsSuccessful(db', c)]_vars

====
